---------------------------- MODULE Spec2Model ----------------------------
(***************************************************************************)
(* Model of robzienert/http-healthcheck: the Monitor (healthcheck.go), its *)
(* DefaultSupervisor goroutines, and the cassandra HealthProvider          *)
(* (monitor/cassandra/health.go) with its background check loop, its       *)
(* RWMutex and its cached health value.                                    *)
(*                                                                         *)
(* Threads of control: the caller of Monitor.Start()/Close(), one caller   *)
(* of Monitor.Status(), one supervisor goroutine per provider and one      *)
(* check-loop goroutine per HealthProvider.Start() call.  A Go panic that  *)
(* no deferred function of the panicking goroutine recovers terminates the *)
(* whole process: alive becomes FALSE and nothing runs any more.           *)
(***************************************************************************)
EXTENDS Integers, Sequences, FiniteSets, TLC

\* Largest number of providers handed to New.
MaxProviders == 2

\* Provider names (Name()).  Two providers may carry the same name (Name() of
\* every cassandra HealthProvider is "cassandra").  Names are only compared
\* for equality, so a provider list is taken up to renaming: provider i bears
\* either the name of an earlier provider or the next unused name.
NameList == <<"cassandra", "replica", "queue", "cache">>
NameIndexes(n) ==
  {f \in [1..n -> 1..n] :
     \A i \in 1..n : f[i] <= i /\ f[f[i]] = f[i]}
ProviderLists ==
  UNION {{[i \in 1..n |-> NameList[Cardinality({f[j] : j \in 1..f[i]})]] :
            f \in NameIndexes(n)} : n \in 0..MaxProviders}

\* Failure texts the external query of performCheck can produce.
QueryErrors == {"no hosts available"}

\* A Go error value is an interface: a type word and a data word.
NilError == [typ |-> "nil", ptr |-> "nil"]
Err(text) == [typ |-> "error", ptr |-> text]

\* errors.New("health status unchecked"), the value NewHealthProvider stores.
Unchecked == Err("health status unchecked")

\* The values a completed assignment to HealthProvider.healthy can leave.
ErrorValues == {NilError, Unchecked} \cup {Err(t) : t \in QueryErrors}

VARIABLES
  alive,          \* the process has not been terminated by an unrecovered panic
  panic,          \* the unrecovered panic: the provider that raised it and where
  providers,      \* Monitor.providers: the sequence of the providers' names
  supervisorChs,  \* Monitor.supervisorChs: a sequence of channels (by provider index)
  monPc, monIdx,  \* the caller of Monitor.Start()/Close(): position and loop index
  done,           \* DefaultSupervisor's done channel of each provider: buffered items
  supPc,          \* position of each supervisor goroutine
  wg,             \* each supervisor goroutine's WaitGroup counter
  supPanicking,   \* a panic is unwinding the supervisor goroutine (what recover() sees)
  startCalls,     \* number of provider.Start() invocations, per provider
  startErr,       \* what the latest provider.Start() returned (line 63 discards it)
  closeCalls,     \* number of provider.Close() invocations, per provider
  healthy,        \* HealthProvider.healthy
  committed,      \* healthy as the most recently completed performCheck left it
  lockW,          \* HealthProvider.lock is held for writing (by which loop; 0: free)
  lockR,          \* number of holders of HealthProvider.lock for reading
  pdone,          \* HealthProvider.done: buffered items of each channel Start() made
  loops,          \* the check-loop goroutines of each provider, one per Start()
  rdPc, rdIdx,    \* the caller of Monitor.Status(): position and loop index
  rdVal,          \* IsHealthy()'s return value in progress / Status()'s local status
  rdSeen,         \* the values IsHealthy() returned to the current Status() call
  all,            \* Status()'s local all: [Healthy, Statuses]
  resp            \* MarshalHealthStatusResponse's local r.Status

monVars == <<providers, supervisorChs, monPc, monIdx>>
supVars == <<done, supPc, wg, supPanicking, startCalls, startErr, closeCalls>>
provVars == <<healthy, committed, lockW, lockR, pdone, loops>>
rdVars == <<rdPc, rdIdx, rdVal, rdSeen, all, resp>>
vars == <<alive, panic, monVars, supVars, provVars, rdVars>>

P == 1..Len(providers)

\* No panic was raised; a panic raised for provider i in Start(), in
\* performCheck or in the supervisor's deferred function.
NoPanic == [by |-> 0, in |-> "none"]
Panic(i, where) == [by |-> i, in |-> where]

\* An empty ProviderStatuses map: make(ProviderStatuses, 0).
EmptyMap == [n \in {} |-> NilError]

\* An empty response map: make(map[string]string, len(status.Statuses)).
EmptyResponse == [n \in {} |-> ""]

\* Mutant of MapPut: the map is replaced by the one entry instead of being
\* updated.
MapPutReplacing(m, k, v) == [n \in {k} |-> v]

\* m[k] = v on a Go map: the key is added or its value overwritten.
MapPut(m, k, v) == [n \in DOMAIN m \cup {k} |-> IF n = k THEN v ELSE m[n]]

\* New(supervisor, providers...) followed by NewHealthProvider for each one.
Init ==
  /\ alive = TRUE
  /\ panic = NoPanic
  /\ providers \in ProviderLists
  /\ supervisorChs = <<>>
  /\ monPc = "new" /\ monIdx = 0
  /\ done = [i \in P |-> 0]
  /\ supPc = [i \in P |-> "none"]
  /\ wg = [i \in P |-> 0]
  /\ supPanicking = [i \in P |-> FALSE]
  /\ startCalls = [i \in P |-> 0]
  /\ startErr = [i \in P |-> NilError]
  /\ closeCalls = [i \in P |-> 0]
  /\ healthy = [i \in P |-> Unchecked]
  /\ committed = [i \in P |-> Unchecked]
  /\ lockW = [i \in P |-> 0]
  /\ lockR = [i \in P |-> 0]
  /\ pdone = [i \in P |-> <<>>]
  /\ loops = [i \in P |-> <<>>]
  /\ rdPc = "idle" /\ rdIdx = 0
  /\ rdVal = NilError /\ rdSeen = <<>>
  /\ all = [Healthy |-> TRUE, Statuses |-> EmptyMap]
  /\ resp = EmptyResponse


\* An unrecovered panic terminates the process: every goroutine and the heap
\* are gone.  What stays is what an observer saw happen: the Monitor calls
\* made, the signals sent and the numbers of Start() and Close() invocations.
ProcessExit(i, where) ==
  /\ alive' = FALSE
  /\ panic' = Panic(i, where)
  /\ supPc' = [j \in P |-> "gone"]
  /\ wg' = [j \in P |-> 0]
  /\ supPanicking' = [j \in P |-> FALSE]
  /\ startErr' = [j \in P |-> NilError]
  /\ healthy' = [j \in P |-> Unchecked]
  /\ committed' = [j \in P |-> Unchecked]
  /\ lockW' = [j \in P |-> 0]
  /\ lockR' = [j \in P |-> 0]
  /\ pdone' = [j \in P |-> <<>>]
  /\ loops' = [j \in P |-> <<>>]
  /\ rdPc' = "gone" /\ rdIdx' = 0
  /\ rdVal' = NilError /\ rdSeen' = <<>>
  /\ all' = [Healthy |-> TRUE, Statuses |-> EmptyMap]
  /\ resp' = EmptyResponse

(***************************************************************************)
(* HealthProvider (monitor/cassandra/health.go)                            *)
(***************************************************************************)

\* A check-loop goroutine: its position, the error performCheck's query gave,
\* and the channel (an index of pdone[i]) its select is waiting on.
Loop(pc, err, ch) == [pc |-> pc, err |-> err, ch |-> ch]

\* HealthProvider.Start(): p.done = make(chan struct{}, 1); go func(){...}().
\* The new goroutine starts at its first performCheck (line 39).
StartedDone(i) == [pdone EXCEPT ![i] = Append(@, 0)]
StartedLoops(i) == [loops EXCEPT ![i] = Append(@, Loop("check", NilError, 0))]

\* Mutant of LockFree: performCheck does not take the lock.
LockFreeUnlocked(i) == TRUE

\* p.lock.Lock() (line 57) waits until nobody holds the lock, for writing or
\* for reading.
LockFree(i) == lockW[i] = 0 /\ lockR[i] = 0

\* The first performCheck (line 39), p.lock.Lock(): waits until nobody holds
\* the lock.
performCheckLock(i, k) ==
  /\ alive
  /\ loops[i][k].pc = "check"
  /\ LockFree(i)
  /\ lockW' = [lockW EXCEPT ![i] = k]
  /\ loops' = [loops EXCEPT ![i][k].pc = "query"]
  /\ UNCHANGED <<alive, panic, monVars, supVars, healthy, committed, lockR, pdone, rdVars>>

\* The first word of the interface value p.healthy is stored.
StoreTyp(i, e) == [healthy EXCEPT ![i].typ = e.typ]

\* performCheck: the external query returns (nil or an error) with the lock
\* held; the assignment p.healthy = err / p.healthy = nil begins.
performCheckQuery(i, k) ==
  /\ alive
  /\ loops[i][k].pc = "query"
  /\ \E e \in {NilError} \cup {Err(t) : t \in QueryErrors} :
       /\ healthy' = StoreTyp(i, e)
       /\ loops' = [loops EXCEPT ![i][k].pc = "store", ![i][k].err = e]
  /\ UNCHANGED <<alive, panic, monVars, supVars, committed, lockW, lockR, pdone, rdVars>>

\* The second word of p.healthy is stored: the assignment is complete.
StorePtr(i, e) == [healthy EXCEPT ![i].ptr = e.ptr]

\* The assignment completes and performCheck returns: the deferred
\* p.lock.Unlock() runs and the loop reaches its select, which waits on
\* ticker.C and on the current p.done.
performCheckUnlock(i, k) ==
  /\ alive
  /\ loops[i][k].pc = "store"
  /\ healthy' = StorePtr(i, loops[i][k].err)
  /\ lockW' = [lockW EXCEPT ![i] = 0]
  /\ committed' = [committed EXCEPT ![i] = healthy'[i]]
  /\ loops' = [loops EXCEPT ![i][k] = Loop("select", NilError, Len(pdone[i]))]
  /\ UNCHANGED <<alive, panic, monVars, supVars, lockR, pdone, rdVars>>

\* case <-ticker.C: the loop calls performCheck again, which takes the lock
\* (p.lock.Lock() waits until nobody holds it).
LoopTick(i, k) ==
  /\ alive
  /\ loops[i][k].pc = "select"
  /\ LockFree(i)
  /\ lockW' = [lockW EXCEPT ![i] = k]
  /\ loops' = [loops EXCEPT ![i][k].pc = "query"]
  /\ UNCHANGED <<alive, panic, monVars, supVars, healthy, committed, lockR, pdone, rdVars>>

\* case <-p.done: ticker.Stop(); return.
LoopDone(i, k) ==
  /\ alive
  /\ loops[i][k].pc = "select"
  /\ pdone[i][loops[i][k].ch] > 0
  /\ pdone' = [pdone EXCEPT ![i][loops[i][k].ch] = @ - 1]
  /\ loops' = [loops EXCEPT ![i][k].pc = "stopped"]
  /\ UNCHANGED <<alive, panic, monVars, supVars, healthy, committed, lockW, lockR, rdVars>>

\* The query panics inside performCheck (p.session is nil, say): the deferred
\* Unlock runs while the panic unwinds the loop goroutine, which has no
\* recover(): the Go runtime terminates the process.
performCheckPanic(i, k) ==
  /\ alive
  /\ loops[i][k].pc = "query"
  /\ ProcessExit(i, "performCheck")
  /\ UNCHANGED <<monVars, done, startCalls, closeCalls>>

\* Capacity of the channel make(chan struct{}, 1) of line 35.
PDoneCap == 1

\* Mutant of CloseCanSend: the channel is unbuffered, so the send goes
\* through only when a loop is at its select, receiving from that channel.
CloseCanSendUnbuffered(i) ==
  /\ Len(pdone[i]) > 0
  /\ \E k \in DOMAIN loops[i] :
       loops[i][k].pc = "select" /\ loops[i][k].ch = Len(pdone[i])

\* HealthProvider.Close(): p.done <- struct{}{} on the current channel, which
\* has capacity 1 (the send waits while the buffer is full).
CloseCanSend(i) == Len(pdone[i]) > 0 /\ pdone[i][Len(pdone[i])] < PDoneCap
ClosedDone(i) == [pdone EXCEPT ![i][Len(pdone[i])] = @ + 1]


(***************************************************************************)
(* DefaultSupervisor (healthcheck.go, lines 57-90)                         *)
(***************************************************************************)

\* What a Provider's Start() can return (line 38): nil, or an error.
StartResults == {NilError, Err("failed to start")}

\* provider.Start() returns r.  With nil the provider has made its done
\* channel and launched its check loop (HealthProvider.Start()); a Start()
\* that failed has launched nothing.  The supervisor does not look at r.
StartReturns(i, r) ==
  /\ startErr' = [startErr EXCEPT ![i] = r]
  /\ pdone' = IF r = NilError THEN StartedDone(i) ELSE pdone
  /\ loops' = IF r = NilError THEN StartedLoops(i) ELSE loops

\* Capacity of the channel make(chan struct{}, 1) of line 58.
DoneCap == 1

\* The counter wg.Add(1) leaves; only wg.Done() in the deferred function
\* lowers it.
WgAdd == 1

\* wg.Wait() (line 87) returns only when the counter is zero.
WaitReturns(i) == wg[i] = 0

\* Mutant of AfterStart: a Start() that returned an error is tried again.
AfterStartRetrying(i) ==
  [supPc EXCEPT ![i] = IF startErr'[i] # NilError THEN "run" ELSE "wait"]

\* Mutant of AfterStart: the goroutine calls provider.Start() again instead of
\* waiting, whether or not a signal is pending on done.
AfterStartRestarts(i) == [supPc EXCEPT ![i] = "run"]

\* Where the goroutine is after provider.Start() returned: the defer
\* statement registered the recovery function and wg.Wait() is waiting.
AfterStart(i) == [supPc EXCEPT ![i] = "wait"]

\* Lines 59-64 and 87: wg.Add(1); provider.Start() returns; the goroutine
\* reaches wg.Wait().
SupervisorStart(i) ==
  /\ alive
  /\ supPc[i] = "run"
  /\ wg' = [wg EXCEPT ![i] = @ + WgAdd]
  /\ startCalls' = [startCalls EXCEPT ![i] = @ + 1]
  /\ \E r \in StartResults : StartReturns(i, r)
  /\ supPc' = AfterStart(i)
  /\ UNCHANGED <<alive, panic, monVars, done, supPanicking, closeCalls,
                 healthy, committed, lockW, lockR, rdVars>>

\* The deferred function of lines 65-86 runs only when the goroutine's
\* function returns, or panics after the defer statement; wg.Wait() is all
\* that follows the defer statement, so that means: when wg.Wait() returns
\* (SupervisorWaitReturn below).  The counter is 1 from line 62 on and only
\* the deferred function lowers it: a goroutine at wg.Wait() never sees it at
\* zero.  The steps SupervisorWaitReturn, DeferredDone, DeferredRecover and
\* DeferredRestart are therefore never enabled and the next-state relation
\* leaves them out, and with them provider.Close() and the check loop's
\* case <-p.done.
WaitNeverReturns == \A i \in P : supPc[i] = "wait" => ~WaitReturns(i)

\* provider.Start() at line 63 panics.  The defer statement of line 65 has
\* not run yet, so no recovery function is registered: the panic leaves the
\* goroutine and the Go runtime terminates the process.
SupervisorStartPanic(i) ==
  /\ alive
  /\ supPc[i] = "run"
  /\ startCalls' = [startCalls EXCEPT ![i] = @ + 1]
  /\ ProcessExit(i, "Start")
  /\ UNCHANGED <<monVars, done, closeCalls>>

\* Line 87 returning: the goroutine's function ends and its deferred
\* function (lines 65-86) starts to run.
SupervisorWaitReturn(i) ==
  /\ alive
  /\ supPc[i] = "wait"
  /\ WaitReturns(i)
  /\ supPc' = [supPc EXCEPT ![i] = "deferred"]
  /\ UNCHANGED <<alive, panic, monVars, done, wg, supPanicking, startCalls, startErr,
                 closeCalls, provVars, rdVars>>

\* Deferred function, case <-done (lines 68-71): provider.Close(); wg.Done();
\* return.  wg.Done() panics on a counter that is already zero, and a panic
\* that was not recovered goes on unwinding after the return: both terminate
\* the process.
DeferredDone(i) ==
  /\ alive
  /\ supPc[i] = "deferred"
  /\ done[i] > 0
  /\ CloseCanSend(i)
  /\ done' = [done EXCEPT ![i] = @ - 1]
  /\ closeCalls' = [closeCalls EXCEPT ![i] = @ + 1]
  /\ IF supPanicking[i] \/ wg[i] = 0
     THEN ProcessExit(i, "deferred")
     ELSE /\ pdone' = ClosedDone(i)
          /\ wg' = [wg EXCEPT ![i] = @ - 1]
          /\ supPc' = [supPc EXCEPT ![i] = "exited"]
          /\ UNCHANGED <<alive, panic, supPanicking, startErr, healthy, committed,
                         lockW, lockR, loops, rdVars>>
  /\ UNCHANGED <<monVars, startCalls>>

\* Deferred function, default case with recover() # nil (lines 72-80): the
\* panic is recovered and the goroutine sleeps for the backoff.
DeferredRecover(i) ==
  /\ alive
  /\ supPc[i] = "deferred"
  /\ done[i] = 0
  /\ supPanicking[i]
  /\ supPanicking' = [supPanicking EXCEPT ![i] = FALSE]
  /\ supPc' = [supPc EXCEPT ![i] = "backoff"]
  /\ UNCHANGED <<alive, panic, monVars, done, wg, startCalls, startErr, closeCalls,
                 provVars, rdVars>>

\* Lines 80-82: time.Sleep(backoff) is over; provider.Start() is called again
\* and the for loop goes back to its select.
DeferredRestart(i) ==
  /\ alive
  /\ supPc[i] = "backoff"
  /\ startCalls' = [startCalls EXCEPT ![i] = @ + 1]
  /\ \E r \in StartResults : StartReturns(i, r)
  /\ supPc' = [supPc EXCEPT ![i] = "deferred"]
  /\ UNCHANGED <<alive, panic, monVars, done, wg, supPanicking, closeCalls,
                 healthy, committed, lockW, lockR, rdVars>>


(***************************************************************************)
(* Monitor (healthcheck.go, lines 92-140)                                  *)
(***************************************************************************)

\* Monitor.Start() is called; with no provider it returns at once.
MonitorStart ==
  /\ alive
  /\ monPc = "new"
  /\ IF Len(providers) = 0
     THEN monPc' = "started" /\ monIdx' = 0
     ELSE monPc' = "Start" /\ monIdx' = 1
  /\ UNCHANGED <<alive, panic, providers, supervisorChs, supVars, provVars, rdVars>>

\* Mutant of MonitorStartNext: the supervisor's body runs in the caller (the
\* go statement of line 59 is missing), so an iteration goes on only after the
\* previous provider's Start() has returned.
MonitorStartNextInline ==
  /\ alive
  /\ monPc = "Start" /\ monIdx <= Len(providers)
  /\ monIdx > 1 => supPc[monIdx - 1] = "wait"
  /\ done' = [done EXCEPT ![monIdx] = 0]
  /\ supPc' = [supPc EXCEPT ![monIdx] = "run"]
  /\ supervisorChs' = Append(supervisorChs, monIdx)
  /\ IF monIdx = Len(providers)
     THEN monPc' = "started" /\ monIdx' = 0
     ELSE monPc' = monPc /\ monIdx' = monIdx + 1
  /\ UNCHANGED <<alive, panic, providers, wg, supPanicking, startCalls, startErr,
                 closeCalls, provVars, rdVars>>

\* One iteration of lines 113-117: ch := m.supervisor(p) makes the done
\* channel and launches the supervisor goroutine; ch is appended.  After the
\* last iteration Monitor.Start() returns.
MonitorStartNext ==
  /\ alive
  /\ monPc = "Start" /\ monIdx <= Len(providers)
  /\ done' = [done EXCEPT ![monIdx] = 0]
  /\ supPc' = [supPc EXCEPT ![monIdx] = "run"]
  /\ supervisorChs' = Append(supervisorChs, monIdx)
  /\ IF monIdx = Len(providers)
     THEN monPc' = "started" /\ monIdx' = 0
     ELSE monPc' = monPc /\ monIdx' = monIdx + 1
  /\ UNCHANGED <<alive, panic, providers, wg, supPanicking, startCalls, startErr,
                 closeCalls, provVars, rdVars>>

\* Monitor.Close() is called; with no channel it returns at once.
MonitorClose ==
  /\ alive
  /\ monPc = "started"
  /\ IF Len(supervisorChs) = 0
     THEN monPc' = "closed" /\ monIdx' = 0
     ELSE monPc' = "Close" /\ monIdx' = 1
  /\ UNCHANGED <<alive, panic, providers, supervisorChs, supVars, provVars, rdVars>>

\* Mutant of Signalled: every iteration sends on all the channels.
SignalledAll(ch) == [i \in DOMAIN done |-> done[i] + 1]

\* The signal ch <- struct{}{} leaves in the channel's buffer.
Signalled(ch) == [done EXCEPT ![ch] = @ + 1]

\* One iteration of lines 124-126: ch <- struct{}{} on a channel of
\* capacity 1 (the send waits while the buffer is full).  After the last
\* iteration Monitor.Close() returns.
MonitorCloseNext ==
  /\ alive
  /\ monPc = "Close" /\ monIdx <= Len(supervisorChs)
  /\ done[supervisorChs[monIdx]] < DoneCap
  /\ done' = Signalled(supervisorChs[monIdx])
  /\ IF monIdx = Len(supervisorChs)
     THEN monPc' = "closed" /\ monIdx' = 0
     ELSE monPc' = monPc /\ monIdx' = monIdx + 1
  /\ UNCHANGED <<alive, panic, providers, supervisorChs, supPc, wg, supPanicking,
                 startCalls, startErr, closeCalls, provVars, rdVars>>

\* Monitor.Status() is called (line 131); with no provider it returns at
\* once (line 139).
StatusCall ==
  /\ alive
  /\ rdPc \in {"idle", "returned"}
  /\ IF Len(providers) = 0
     THEN rdPc' = "returned" /\ rdIdx' = 0
     ELSE rdPc' = "loop" /\ rdIdx' = 1
  /\ rdVal' = NilError /\ rdSeen' = <<>>
  /\ all' = [Healthy |-> TRUE, Statuses |-> EmptyMap]
  /\ UNCHANGED <<alive, panic, monVars, supVars, provVars, resp>>

\* Mutant of RLockFree: IsHealthy() reads p.healthy without taking the lock.
RLockFreeUnlocked(i) == TRUE

\* p.lock.RLock() waits while the lock is held for writing.
RLockFree(i) == lockW[i] = 0

\* Mutant of IsHealthyRead: IsHealthy() runs the external query itself and
\* stores its result, so a status read cascades into a health check.
IsHealthyReadCascading ==
  /\ alive
  /\ rdPc = "loop" /\ rdIdx <= Len(providers)
  /\ RLockFree(rdIdx)
  /\ lockR' = [lockR EXCEPT ![rdIdx] = @ + 1]
  /\ \E e \in {NilError} \cup {Err(t) : t \in QueryErrors} :
       /\ rdVal' = e
       /\ healthy' = [healthy EXCEPT ![rdIdx] = e]
       /\ committed' = [committed EXCEPT ![rdIdx] = e]
  /\ rdPc' = "read"
  /\ UNCHANGED <<alive, panic, monVars, supVars, lockW, pdone, loops,
                 rdIdx, rdSeen, all, resp>>

\* Line 133, p.IsHealthy(): p.lock.RLock() is acquired and return p.healthy
\* reads the field with the read lock held.
IsHealthyRead ==
  /\ alive
  /\ rdPc = "loop" /\ rdIdx <= Len(providers)
  /\ RLockFree(rdIdx)
  /\ lockR' = [lockR EXCEPT ![rdIdx] = @ + 1]
  /\ rdVal' = healthy[rdIdx]
  /\ rdPc' = "read"
  /\ UNCHANGED <<alive, panic, monVars, supVars, healthy, committed, lockW, pdone,
                 loops, rdIdx, rdSeen, all, resp>>

\* Mutant of Fold: Healthy follows the last provider only.
FoldLastOnly(h, status) == status = NilError

\* Lines 134-136: Healthy after one provider's status.
Fold(h, status) == IF status # NilError THEN FALSE ELSE h

\* IsHealthy() returns (the deferred RUnlock runs) and lines 134-137 fold the
\* status into all.  After the last provider Status() returns all (line 139).
IsHealthyReturn ==
  /\ alive
  /\ rdPc = "read"
  /\ lockR' = [lockR EXCEPT ![rdIdx] = @ - 1]
  /\ all' = [Healthy |-> Fold(all.Healthy, rdVal),
             Statuses |-> MapPut(all.Statuses, providers[rdIdx], rdVal)]
  /\ rdSeen' = Append(rdSeen, rdVal)
  /\ rdVal' = NilError
  /\ IF rdIdx = Len(providers)
     THEN rdPc' = "returned" /\ rdIdx' = 0
     ELSE rdPc' = "loop" /\ rdIdx' = rdIdx + 1
  /\ UNCHANGED <<alive, panic, monVars, supVars, healthy, committed, lockW, pdone, loops,
                 resp>>

\* One step of the caller of Start()/Close(), of the caller of Status(), of a
\* supervisor goroutine or of a check-loop goroutine.
Next ==
  \/ MonitorStart
  \/ MonitorStartNext
  \/ MonitorClose
  \/ MonitorCloseNext
  \/ StatusCall
  \/ IsHealthyRead
  \/ IsHealthyReturn
  \/ \E i \in P : SupervisorStart(i)
  \/ \E i \in P : SupervisorStartPanic(i)
  \/ \E i \in P : \E k \in DOMAIN loops[i] : performCheckLock(i, k)
  \/ \E i \in P : \E k \in DOMAIN loops[i] : performCheckQuery(i, k)
  \/ \E i \in P : \E k \in DOMAIN loops[i] : performCheckUnlock(i, k)
  \/ \E i \in P : \E k \in DOMAIN loops[i] : performCheckPanic(i, k)
  \/ \E i \in P : \E k \in DOMAIN loops[i] : LoopTick(i, k)

Spec == Init /\ [][Next]_vars

\* The Go scheduler runs every goroutine that can take a step, the ticker
\* keeps firing and a call in progress goes on; whether the caller makes a
\* new call, and whether a provider panics, is left open.
CallerRuns == MonitorStartNext \/ MonitorCloseNext
ReaderRuns == IsHealthyRead \/ IsHealthyReturn
SupervisorRuns(i) == i \in P /\ SupervisorStart(i)
LoopRuns(i) ==
  /\ i \in P
  /\ \E k \in DOMAIN loops[i] :
       \/ performCheckLock(i, k) \/ performCheckQuery(i, k)
       \/ performCheckUnlock(i, k) \/ LoopTick(i, k)

FairSpec ==
  /\ Spec
  /\ WF_vars(CallerRuns) /\ WF_vars(ReaderRuns)
  /\ \A i \in 1..MaxProviders : WF_vars(SupervisorRuns(i)) /\ WF_vars(LoopRuns(i))


(***************************************************************************)
(* MarshalHealthStatusResponse (lines 18-32)                               *)
(***************************************************************************)

\* Largest number of entries of a Status handed to the function.
MaxKeys == 2

\* The keys and the errors of the input maps: the test's "foo" and "bar" and
\* its error "Not OK", and errors whose text is "OK" or empty.
KeyList == <<"foo", "bar", "baz">>
MarshalKeys == {KeyList[i] : i \in 1..MaxKeys}
MarshalErrors == {NilError, Err("Not OK"), Err("OK"), Err("")}

\* The Status values handed to the function.
StatusInputs ==
  {[Healthy |-> h, Statuses |-> m] :
     h \in BOOLEAN, m \in UNION {[K -> MarshalErrors] : K \in SUBSET MarshalKeys}}

\* s.Error(): the text of a non-nil error.
ErrorText(s) == s.ptr

\* Mutant of Text: v keeps the zero value of a string for a nil error.
TextZeroOnNil(s) == IF s = NilError THEN "" ELSE ErrorText(s)

\* Lines 23-28: v is "OK" for a nil error and the error's text otherwise.
Text(s) == IF s = NilError THEN "OK" ELSE ErrorText(s)

\* A handler holds a Status (the one Monitor.Status() returned to it).
MarshalInit ==
  /\ alive = TRUE /\ panic = NoPanic
  /\ providers = <<>> /\ supervisorChs = <<>>
  /\ monPc = "new" /\ monIdx = 0
  /\ done = <<>> /\ supPc = <<>> /\ wg = <<>> /\ supPanicking = <<>>
  /\ startCalls = <<>> /\ startErr = <<>> /\ closeCalls = <<>>
  /\ healthy = <<>> /\ committed = <<>> /\ lockW = <<>> /\ lockR = <<>>
  /\ pdone = <<>> /\ loops = <<>>
  /\ rdPc = "returned" /\ rdIdx = 0 /\ rdVal = NilError /\ rdSeen = <<>>
  /\ all \in StatusInputs
  /\ resp = EmptyResponse

\* Line 21: the function is called and makes the response's map.
MarshalCall ==
  /\ rdPc = "returned"
  /\ rdPc' = "marshal"
  /\ resp' = EmptyResponse
  /\ UNCHANGED <<alive, panic, monVars, supVars, provVars, rdIdx, rdVal, rdSeen, all>>

\* Lines 22-30: one iteration of the range loop, which visits every key of
\* status.Statuses once, in an order Go leaves open.
MarshalEntry ==
  /\ rdPc = "marshal"
  /\ \E p \in DOMAIN all.Statuses \ DOMAIN resp :
       resp' = [n \in DOMAIN resp \cup {p} |->
                  IF n = p THEN Text(all.Statuses[p]) ELSE resp[n]]
  /\ UNCHANGED <<alive, panic, monVars, supVars, provVars, rdPc, rdIdx, rdVal, rdSeen, all>>

\* Line 31: every key was visited; the function returns r.
MarshalReturn ==
  /\ rdPc = "marshal"
  /\ DOMAIN all.Statuses \ DOMAIN resp = {}
  /\ rdPc' = "responded"
  /\ UNCHANGED <<alive, panic, monVars, supVars, provVars, rdIdx, rdVal, rdSeen, all, resp>>

MarshalNext ==
  \/ MarshalCall
  \/ MarshalEntry
  \/ MarshalReturn

MarshalSpec == MarshalInit /\ [][MarshalNext]_vars


(***************************************************************************)
(* A HealthProvider driven by its owner: Start() and Close() are called on *)
(* it directly, and Status() of a Monitor made over it reads it.           *)
(***************************************************************************)

\* Largest number of Start() calls the owner makes.
MaxStarts == 2

\* New(nil, NewHealthProvider(session)); Monitor.Start() is not called.
ProviderInit == Init /\ providers = <<"cassandra">>

\* p.Start() (lines 33-53), which returns nil (line 52): a new done channel
\* replaces p.done and a new check loop is launched; a loop launched by an
\* earlier Start() is left as it is.
ProviderStart(i) ==
  /\ alive
  /\ startCalls[i] < MaxStarts /\ closeCalls[i] = 0
  /\ startCalls' = [startCalls EXCEPT ![i] = @ + 1]
  /\ StartReturns(i, NilError)
  /\ UNCHANGED <<alive, panic, monVars, done, supPc, wg, supPanicking, closeCalls,
                 healthy, committed, lockW, lockR, rdVars>>

\* p.Close() (lines 74-77), called once after Start(): the send on the
\* current p.done, then return nil.
ProviderClose(i) ==
  /\ alive
  /\ startCalls[i] >= 1 /\ closeCalls[i] = 0
  /\ CloseCanSend(i)
  /\ closeCalls' = [closeCalls EXCEPT ![i] = @ + 1]
  /\ pdone' = ClosedDone(i)
  /\ UNCHANGED <<alive, panic, monVars, done, supPc, wg, supPanicking, startCalls,
                 startErr, healthy, committed, lockW, lockR, loops, rdVars>>

ProviderNext ==
  \/ StatusCall
  \/ IsHealthyRead
  \/ IsHealthyReturn
  \/ \E i \in P : ProviderStart(i)
  \/ \E i \in P : ProviderClose(i)
  \/ \E i \in P : \E k \in DOMAIN loops[i] : performCheckLock(i, k)
  \/ \E i \in P : \E k \in DOMAIN loops[i] : performCheckQuery(i, k)
  \/ \E i \in P : \E k \in DOMAIN loops[i] : performCheckUnlock(i, k)
  \/ \E i \in P : \E k \in DOMAIN loops[i] : performCheckPanic(i, k)
  \/ \E i \in P : \E k \in DOMAIN loops[i] : LoopTick(i, k)
  \/ \E i \in P : \E k \in DOMAIN loops[i] : LoopDone(i, k)

ProviderSpec == ProviderInit /\ [][ProviderNext]_vars

\* Every loop goroutine goes on: a Lock() is granted in the end (a waiting
\* writer of a sync.RWMutex holds new readers back, and a sync.Mutex does not
\* starve a waiter), the ticker keeps firing, and a select with two ready
\* cases picks at random, so a signal that stays in the channel a loop
\* selects on is received in the end.
LoopChecks(i, k) ==
  /\ i \in P /\ k \in DOMAIN loops[i]
  /\ \/ performCheckLock(i, k) \/ performCheckQuery(i, k)
     \/ performCheckUnlock(i, k) \/ LoopTick(i, k)
LoopStops(i, k) == i \in P /\ k \in DOMAIN loops[i] /\ LoopDone(i, k)

FairProviderSpec ==
  /\ ProviderSpec
  /\ WF_vars(ReaderRuns)
  /\ \A k \in 1..MaxStarts : SF_vars(LoopChecks(1, k)) /\ SF_vars(LoopStops(1, k))


(***************************************************************************)
(* Properties                                                              *)
(***************************************************************************)

\* The Status value a completed Monitor.Status() call returned.
Returned == alive /\ rdPc = "returned"
AllNil(m) == \A n \in DOMAIN m : m[n] = NilError
DistinctNames == \A i, j \in P : providers[i] = providers[j] => i = j

\* Monitor.Close() has sent the shutdown signal on provider i's channel.
Sent(i) == monPc = "closed" \/ (monPc = "Close" /\ monIdx > i)

\* C1: once Monitor.Close() has returned, every provider's Close() is
\* eventually invoked (executions that end in a process crash set aside).
C1_CloseCascades ==
  (alive /\ monPc = "closed") ~> (~alive \/ \A i \in P : closeCalls[i] >= 1)

\* C2: after a panic in a provider's background loop, with no shutdown
\* requested, that provider's Start() is eventually invoked again.
C2_RestartAfterCrash ==
  \A i \in 1..MaxProviders :
    (panic = Panic(i, "performCheck") /\ startCalls[i] = 1
       /\ monPc \notin {"Close", "closed"})
      ~> (i \in P /\ startCalls[i] >= 2)

\* C3: a panic raised by a provider, in Start() or in its background loop,
\* never terminates the process.
C3_CrashAbsorbed == panic # NoPanic => alive

C5_CloseAtMostOnce == \A i \in P : closeCalls[i] <= 1

\* C6 as stated: every returned Statuses map has as many entries as there
\* are configured providers.
C6_OneEntryPerProvider ==
  Returned => Cardinality(DOMAIN all.Statuses) = Len(providers)

\* C6 as amended: the keys of every returned Statuses map are exactly the
\* names of the configured providers, and the map has one entry per provider
\* whenever the providers' names are pairwise distinct.
C6_OneEntryPerName ==
  Returned =>
    /\ DOMAIN all.Statuses = {providers[i] : i \in P}
    /\ DistinctNames => Cardinality(DOMAIN all.Statuses) = Len(providers)

\* A Status over two differently named providers returned after Close().
C6_Witness ==
  /\ Returned /\ monPc = "closed"
  /\ Len(providers) = 2 /\ DistinctNames
  /\ Cardinality(DOMAIN all.Statuses) = 2

\* C7 as stated: Healthy is true iff every entry of the returned Statuses map
\* is nil.
C7_HealthyIffAllNil == Returned => (all.Healthy <=> AllNil(all.Statuses))

\* C7 as amended: Healthy is true iff every IsHealthy() call of that Status()
\* returned nil; a non-nil entry of Statuses makes Healthy false; and with
\* pairwise distinct provider names Healthy is true iff every entry is nil.
C7_HealthyIffAllResultsNil ==
  Returned =>
    /\ all.Healthy <=> \A k \in DOMAIN rdSeen : rdSeen[k] = NilError
    /\ ~AllNil(all.Statuses) => ~all.Healthy
    /\ DistinctNames => (all.Healthy <=> AllNil(all.Statuses))

\* A returned Status where the first provider is healthy, the second one is
\* not, and Healthy is false.
C7_Witness ==
  /\ Returned /\ Len(providers) = 2 /\ DistinctNames
  /\ rdSeen[1] = NilError /\ rdSeen[2] # NilError
  /\ ~all.Healthy

\* C8: whenever Status() is about to call IsHealthy() on a provider, the call
\* can proceed at once: nobody holds that provider's lock for writing.
C8_StatusNeverWaits ==
  (alive /\ rdPc = "loop") => RLockFree(rdIdx)

\* C9: the value IsHealthy() read is a complete error value and is the one
\* the most recently completed performCheck left (the initial value before
\* the first check completes).
C9_ReadsLastCompletedCheck ==
  (alive /\ rdPc = "read") =>
    /\ rdVal \in ErrorValues
    /\ rdVal = committed[rdIdx]

\* IsHealthy() read the failure of a completed check while the provider that
\* produced it is running a later check's loop.
C9_Witness ==
  /\ alive /\ rdPc = "read"
  /\ rdVal \in {Err(t) : t \in QueryErrors}
  /\ \E k \in DOMAIN loops[rdIdx] : loops[rdIdx][k].pc = "select"

\* C10: a step of Monitor.Status() changes neither a provider's cached value,
\* nor the provider list, nor the supervisor channels and their contents, and
\* starts no check and no Start() or Close().
C10_StatusChangesNothing ==
  [][(alive' /\ rdVars' # rdVars) =>
       UNCHANGED <<healthy, committed, providers, supervisorChs, done, lockW,
                   loops, pdone, startCalls, closeCalls, supPc>>]_vars

\* Status() returned for a Monitor whose providers run their check loops.
C10_Witness ==
  /\ Returned /\ Len(providers) = 2
  /\ \A i \in P : loops[i] # <<>> /\ committed[i] # Unchecked

\* C11: while Monitor.Close() runs its next send can always proceed at once,
\* whatever the supervisors and providers are doing, and at every moment each
\* supervisor channel holds exactly one signal if Close() has passed it and
\* none otherwise; after Close() returned that is one signal on every channel.
C11_CloseSendsOnceNoWait ==
  /\ (alive /\ monPc = "Close") => ENABLED MonitorCloseNext
  /\ monPc \in {"Close", "closed"} =>
       /\ Len(supervisorChs) = Len(providers)
       /\ \A i \in P : supervisorChs[i] = i /\ done[i] = (IF Sent(i) THEN 1 ELSE 0)

\* Close() has returned while one supervisor has not yet called Start() and
\* another one's provider is in the middle of a check.
C11_Witness ==
  /\ alive /\ monPc = "closed" /\ Len(providers) = 2
  /\ supPc[1] = "run" /\ supPc[2] = "wait"
  /\ \E k \in DOMAIN loops[2] : loops[2][k].pc = "query"
  /\ done = <<1, 1>>

\* C12: while Monitor.Start() runs its next iteration can always proceed at
\* once; a supervisor is launched only for a provider that has none yet; and
\* once Start() has returned there is one channel per provider, each
\* provider's own, and every provider has its supervisor.
C12_StartOncePerProvider ==
  /\ [](/\ (alive /\ monPc = "Start") => ENABLED MonitorStartNext
        /\ monPc \in {"started", "Close", "closed"} =>
             /\ Len(supervisorChs) = Len(providers)
             /\ \A i \in P : supervisorChs[i] = i /\ supPc[i] # "none")
  /\ [][\A i \in P : (supPc'[i] = "run" /\ supPc[i] # "run") => supPc[i] = "none"]_vars

\* Start() has returned and no provider's Start() has been called yet.
C12_Witness ==
  /\ alive /\ monPc = "started" /\ Len(providers) = 2
  /\ \A i \in P : supPc[i] = "run" /\ startCalls[i] = 0

\* C13: once provider i's background execution has crashed (and it has not
\* been restarted), the process goes on answering Status() and the value
\* IsHealthy() reports for provider i is a non-nil error.
C13_CrashReportedUnhealthy ==
  \A i \in P : panic = Panic(i, "performCheck") => (alive /\ healthy[i] # NilError)

\* C14: while nothing has crashed, each provider's Start() has been invoked
\* at most once: not at all before its supervisor goroutine calls it, and
\* exactly once from then on, whether it returned nil or an error.
C14_StartExactlyOnce ==
  panic = NoPanic =>
    \A i \in P : /\ startCalls[i] <= 1
                 /\ supPc[i] \in {"none", "run"} => startCalls[i] = 0
                 /\ supPc[i] = "wait" => startCalls[i] = 1

\* A provider's Start() returned an error, another one's returned nil and
\* its loop has completed checks; Close() has returned; no retry happened.
C14_Witness ==
  /\ alive /\ panic = NoPanic /\ Len(providers) = 2 /\ monPc = "closed"
  /\ startErr[1] # NilError /\ startCalls[1] = 1 /\ supPc[1] = "wait"
  /\ startErr[2] = NilError /\ startCalls[2] = 1 /\ committed[2] = NilError

\* C15: the response MarshalHealthStatusResponse returns has exactly the
\* keys of the input map; under each key it holds "OK" where the input holds
\* a nil error and the error's Error() text where it holds a non-nil one.
C15_MarshalKeepsKeys ==
  rdPc = "responded" =>
    /\ DOMAIN resp = DOMAIN all.Statuses
    /\ \A p \in DOMAIN all.Statuses :
         \/ all.Statuses[p] = NilError /\ resp[p] = "OK"
         \/ all.Statuses[p] # NilError /\ resp[p] = all.Statuses[p].ptr

\* The input of TestMarshalHealthStatusResponse has been converted.
C15_Witness ==
  /\ rdPc = "responded"
  /\ all = [Healthy |-> FALSE,
            Statuses |-> [n \in {"foo", "bar"} |->
                            IF n = "foo" THEN NilError ELSE Err("Not OK")]]
  /\ resp = [n \in {"foo", "bar"} |-> IF n = "foo" THEN "OK" ELSE "Not OK"]

\* C17: once the shutdown signal has been sent to provider i's supervisor,
\* that supervisor's goroutine eventually ends (executions that end in a
\* process crash set aside).
C17_SupervisorTerminates ==
  \A i \in 1..MaxProviders :
    (alive /\ i \in P /\ Sent(i)) ~> (~alive \/ (i \in P /\ supPc[i] = "exited"))

\* The check loops of provider i that are inside performCheck with the lock
\* held.
Checking(i) == {k \in DOMAIN loops[i] : loops[i][k].pc \in {"query", "store"}}

\* C16: once the owner has called Close() on the provider, every check loop
\* its Start() calls launched has eventually stopped (executions that end in
\* a process crash set aside).
C16_CloseStopsEveryLoop ==
  (alive /\ closeCalls[1] = 1)
    ~> (~alive \/ \A k \in DOMAIN loops[1] : loops[1][k].pc = "stopped")

\* C18: at most one check loop of a provider is inside performCheck, and
\* while IsHealthy() holds the read lock none is.
C18_ChecksExclusive ==
  \A i \in P :
    /\ Cardinality(Checking(i)) <= 1
    /\ (rdPc = "read" /\ rdIdx = i) => Checking(i) = {}

\* Start() was called twice: one loop is inside performCheck, the other one
\* and an IsHealthy() call are waiting for the lock.
C18_Witness ==
  /\ alive /\ startCalls[1] = 2 /\ Len(loops[1]) = 2
  /\ loops[1][1].pc = "check" /\ loops[1][2].pc = "store"
  /\ rdPc = "loop" /\ rdIdx = 1

\* C19: after Start(), as long as Close() has not been called it can be
\* called and completes at once, in every state of the check loops.
C19_CloseNeverWaits ==
  \A i \in P :
    (alive /\ startCalls[i] >= 1 /\ closeCalls[i] = 0) => ENABLED ProviderClose(i)

\* Close() has returned while the only loop is inside performCheck: the
\* signal waits in the channel.
C19_Witness ==
  /\ alive /\ startCalls[1] = 1 /\ closeCalls[1] = 1
  /\ loops[1][1].pc = "query"
  /\ pdone[1] = <<1>>

=============================================================================
